---- MODULE Spec2Model ----
(***************************************************************************)
(* A model of the helper layer of the kzg-multipoint crate (src/src/lib.rs): *)
(* shape validation, Fiat-Shamir transcription, polynomial algebra, the    *)
(* MSM wrapper and the FFT extension of commitments, plus the commit /     *)
(* open / verify contract that is built on them.                           *)
(*                                                                         *)
(* The crate is generic over a pairing E.  The model instantiates it with  *)
(* a small concrete instance: the scalar field is the prime field of       *)
(* MODULUS elements, a group element is represented by its discrete        *)
(* logarithm to the generator (so the group law is addition mod MODULUS    *)
(* and scalar multiplication is multiplication mod MODULUS), and the       *)
(* pairing of a and b is a * b mod MODULUS.  Sequences are 1-based here;   *)
(* every index the code reports (0-based) is converted where it is built.  *)
(***************************************************************************)
EXTENDS Integers, Sequences, FiniteSets, TLC

VARIABLES call, ret, transcript, log, chal, pc, sess

vars == <<call, ret, transcript, log, chal, pc, sess>>

-----------------------------------------------------------------------------
(* Bounds of the model. *)

\* rows of an evaluation matrix / polynomials / commitments in a shape check
MaxRows == 2
\* entries of one row / points in a shape check
MaxCols == 2
\* bases and scalars handed to curve_msm
MaxMsm == 3
\* polynomials and challenges handed to linear_combination
MaxLin == 2
\* coefficients of a polynomial in the algebra checks
MaxCoeffs == 3
\* points handed to vanishing_polynomial
MaxVanish == 3
\* commitments handed to extend_commitments
MaxCommits == 4
\* entries absorbed by the transcripts of the two sessions together
MaxOps == 4
\* polynomials of one open / verify session
MaxPolys == 2
\* points of one open / verify session
MaxPoints == 3

-----------------------------------------------------------------------------
(* The scalar field F (ark_ff::PrimeField) and its canonical encoding. *)

\* the field modulus of the instance
MODULUS == 257

\* PrimeField::TWO_ADICITY of the instance: MODULUS - 1 = 2^8
TWO_ADICITY == 8

\* a generator of the multiplicative group, hence a 2^TWO_ADICITY-th root of unity
TWO_ADIC_ROOT_OF_UNITY == 3

F == 0 .. (MODULUS - 1)

FAdd(a, b) == (a + b) % MODULUS
FSub(a, b) == (a - b) % MODULUS
FNeg(a) == (0 - a) % MODULUS
FMul(a, b) == (a * b) % MODULUS

RECURSIVE FPow(_, _)
FPow(a, n) ==
    IF n = 0 THEN 1
    ELSE IF n % 2 = 0 THEN FPow(FMul(a, a), n \div 2)
    ELSE FMul(a, FPow(FMul(a, a), n \div 2))

\* Field::inverse: None for zero, the multiplicative inverse otherwise
inverse(a) == IF a = 0 THEN [kind |-> "None"] ELSE [kind |-> "Some", val |-> FPow(a, MODULUS - 2)]

\* Zero of n bytes
ZeroBytes(n) == [k \in 1 .. n |-> 0]

\* serialized_size(Compress::Yes) of a field element: the bytes needed for MODULUS
serialized_size == 2

\* get_field_size::<F>()
get_field_size == serialized_size

\* CanonicalSerialize for a field element: little-endian, serialized_size bytes
serialize(x) == [k \in 1 .. serialized_size |-> (x \div (256 ^ (k - 1))) % 256]

\* serialize_compressed(&mut buf[..]) into a slice of len bytes: the io::Write of a
\* slice fails when the slice is shorter than the encoding and otherwise fills
\* its first bytes, leaving the rest of the (zeroed) slice alone
serialize_into(x, len) ==
    IF len < serialized_size
    THEN [kind |-> "SerializationError"]
    ELSE [kind |-> "Ok", val |-> serialize(x) \o ZeroBytes(len - serialized_size)]

\* serialize_compressed(&mut buf) into a Vec: the io::Write of a Vec appends
serialize_append(buf, x) == buf \o serialize(x)

RECURSIVE BeValue(_)
BeValue(bytes) ==
    IF bytes = <<>> THEN 0
    ELSE 256 * BeValue(SubSeq(bytes, 1, Len(bytes) - 1)) + bytes[Len(bytes)]

\* F::from_be_bytes_mod_order
from_be_bytes_mod_order(bytes) == BeValue(bytes) % MODULUS

-----------------------------------------------------------------------------
(* Results. *)

None == [kind |-> "None"]
Some(v) == [kind |-> "Some", val |-> v]
Ok(v) == [kind |-> "Ok", val |-> v]
Unit == <<>>
Idle == [op |-> "none"]

-----------------------------------------------------------------------------
(* Dense polynomials (ark_poly::univariate::DensePolynomial): a coefficient *)
(* sequence, low degree first, with no trailing zero.                       *)

RECURSIVE from_coefficients_vec(_)
from_coefficients_vec(c) ==
    IF c = <<>> THEN <<>>
    ELSE IF c[Len(c)] = 0 THEN from_coefficients_vec(SubSeq(c, 1, Len(c) - 1))
    ELSE c

PolyIsZero(p) == \A k \in 1 .. Len(p) : p[k] = 0

Coeff(p, k) == IF k <= Len(p) THEN p[k] ELSE 0

Max2(a, b) == IF a >= b THEN a ELSE b
Min2(a, b) == IF a <= b THEN a ELSE b

\* &DensePolynomial + &DensePolynomial
PolyAdd(p, q) ==
    IF PolyIsZero(p) THEN q
    ELSE IF PolyIsZero(q) THEN p
    ELSE from_coefficients_vec(
            [k \in 1 .. Max2(Len(p), Len(q)) |-> FAdd(Coeff(p, k), Coeff(q, k))])

\* &DensePolynomial * F
PolyScale(p, c) ==
    IF PolyIsZero(p) \/ c = 0 THEN <<>>
    ELSE [k \in 1 .. Len(p) |-> FMul(p[k], c)]

RECURSIVE ConvSum(_, _, _, _)
ConvSum(p, q, k, i) ==
    IF i > Len(p) THEN 0
    ELSE FAdd(IF k - i + 1 >= 1 /\ k - i + 1 <= Len(q)
              THEN FMul(p[i], q[k - i + 1]) ELSE 0,
              ConvSum(p, q, k, i + 1))

\* DensePolynomial::naive_mul
naive_mul(p, q) ==
    IF PolyIsZero(p) \/ PolyIsZero(q) THEN <<>>
    ELSE [k \in 1 .. (Len(p) + Len(q) - 1) |-> ConvSum(p, q, k, 1)]

RECURSIVE PolyEval(_, _)
PolyEval(p, x) ==
    IF p = <<>> THEN 0
    ELSE FAdd(p[1], FMul(x, PolyEval(Tail(p), x)))

RECURSIVE DivLoop(_, _, _)
DivLoop(quot, rem, den) ==
    IF rem = <<>> \/ Len(rem) < Len(den) THEN <<from_coefficients_vec(quot), rem>>
    ELSE LET c == FMul(rem[Len(rem)], inverse(den[Len(den)]).val)
             d == Len(rem) - Len(den)
             sub == [k \in 1 .. Len(rem) |->
                       IF k > d /\ k - d <= Len(den)
                       THEN FSub(rem[k], FMul(c, den[k - d]))
                       ELSE rem[k]]
         IN DivLoop([quot EXCEPT ![d + 1] = c], from_coefficients_vec(sub), den)

\* DenseOrSparsePolynomial::divide_with_q_and_r for a non-zero divisor
divide_with_q_and_r(num, den) ==
    IF PolyIsZero(num) THEN <<<<>>, <<>>>>
    ELSE IF Len(num) < Len(den) THEN <<<<>>, num>>
    ELSE DivLoop([k \in 1 .. (Len(num) - Len(den) + 1) |-> 0], num, den)

-----------------------------------------------------------------------------
(* Helpers of the model. *)

SeqsUpTo(S, n) == UNION {[1 .. k -> S] : k \in 0 .. n}

Err0(kind) == [kind |-> kind]

-----------------------------------------------------------------------------
(* Shape validation: check_opening_sizes, check_verify_sizes. *)

\* for e in evals { if e.len() != points.len() { return Err(...) } }: the first
\* row, from index i on, whose length is not n_points, or Ok(())
RECURSIVE RowScan(_, _, _)
RowScan(evals, n_points, i) ==
    IF i > Len(evals) THEN Ok(Unit)
    ELSE IF Len(evals[i]) # n_points
    THEN [kind |-> "EvalsAndPointsDifferentSizes",
          n_evals |-> Len(evals[i]), n_points |-> n_points]
    ELSE RowScan(evals, n_points, i + 1)

\* a plausible slip: the row check runs before the count check
check_opening_sizes_RowsFirst(evals, polys, points) ==
    IF RowScan(evals, Len(points), 1).kind # "Ok"
    THEN RowScan(evals, Len(points), 1)
    ELSE IF Len(evals) # Len(polys)
    THEN [kind |-> "EvalsAndPolysDifferentSizes",
          n_eval_rows |-> Len(evals), n_polys |-> Len(polys)]
    ELSE Ok(Unit)

check_opening_sizes(evals, polys, points) ==
    IF Len(evals) # Len(polys)
    THEN [kind |-> "EvalsAndPolysDifferentSizes",
          n_eval_rows |-> Len(evals), n_polys |-> Len(polys)]
    ELSE RowScan(evals, Len(points), 1)

\* a plausible slip: the two counts are echoed in each other's field
check_verify_sizes_Swapped(commits, points, evals) ==
    IF Len(evals) # Len(commits)
    THEN [kind |-> "EvalsAndCommitsDifferentSizes",
          n_evals |-> Len(commits), n_commits |-> Len(evals)]
    ELSE RowScan(evals, Len(points), 1)

check_verify_sizes(commits, points, evals) ==
    IF Len(evals) # Len(commits)
    THEN [kind |-> "EvalsAndCommitsDifferentSizes",
          n_evals |-> Len(evals), n_commits |-> Len(commits)]
    ELSE RowScan(evals, Len(points), 1)

-----------------------------------------------------------------------------
(* Commitment engine: curve_msm. *)

\* VariableBaseMSM::msm_bigint: the sum of scalar_i * base_i over the common prefix
RECURSIVE msm_bigint(_, _)
msm_bigint(bases, bigints) ==
    IF bases = <<>> \/ bigints = <<>> THEN 0
    ELSE FAdd(FMul(bigints[1], bases[1]), msm_bigint(Tail(bases), Tail(bigints)))

\* a plausible slip: the length guard is off by one
curve_msm_OffByOne(bases, scalars) ==
    IF Len(scalars) >= Len(bases)
    THEN [kind |-> "TooManyScalars",
          n_coeffs |-> Len(scalars), expected_max |-> Len(bases)]
    ELSE Ok(msm_bigint(SubSeq(bases, 1, Len(scalars)), scalars))

\* into_bigint takes a field element to its canonical integer, which is how the
\* model holds field elements already
curve_msm(bases, scalars) ==
    IF Len(scalars) > Len(bases)
    THEN [kind |-> "TooManyScalars",
          n_coeffs |-> Len(scalars), expected_max |-> Len(bases)]
    ELSE Ok(msm_bigint(SubSeq(bases, 1, Len(scalars)), scalars))

-----------------------------------------------------------------------------
(* Polynomial algebra: gen_powers, vanishing_polynomial, poly_div_q_r,      *)
(* linear_combination.                                                      *)

RECURSIVE gen_powers(_, _)
gen_powers(element, len) ==
    IF len = 0 THEN <<>>
    ELSE IF len = 1 THEN <<1>>
    ELSE LET powers == gen_powers(element, len - 1)
         IN Append(powers, FMul(element, powers[len - 1]))

RECURSIVE VanishFold(_, _)
VanishFold(acc, points) ==
    IF points = <<>> THEN acc
    ELSE VanishFold(naive_mul(acc, from_coefficients_vec(<<FNeg(points[1]), 1>>)),
                    Tail(points))

\* a plausible slip: the factor is X + p instead of X - p
RECURSIVE vanishing_polynomial_PlusRoot(_)
vanishing_polynomial_PlusRoot(points) ==
    IF points = <<>> THEN <<1>>
    ELSE naive_mul(vanishing_polynomial_PlusRoot(SubSeq(points, 1, Len(points) - 1)),
                   from_coefficients_vec(<<points[Len(points)], 1>>))

vanishing_polynomial(points) == VanishFold(from_coefficients_vec(<<1>>), points)

\* a plausible slip: the quotient and the remainder are returned in the other order
poly_div_q_r_Swapped(num, denom) ==
    IF PolyIsZero(denom) THEN Err0("DivisorIsZero")
    ELSE Ok(<<divide_with_q_and_r(num, denom)[2], divide_with_q_and_r(num, denom)[1]>>)

poly_div_q_r(num, denom) ==
    IF PolyIsZero(denom) THEN Err0("DivisorIsZero")
    ELSE Ok(divide_with_q_and_r(num, denom))

\* polynomials.iter().zip(challenges.iter()).map(|(p, &c)| &from_coefficients_slice(p) * c)
LinTerms(polynomials, challenges) ==
    [i \in 1 .. Min2(Len(polynomials), Len(challenges)) |->
        PolyScale(from_coefficients_vec(polynomials[i]), challenges[i])]

\* Iterator::reduce(|x, y| x + y)
RECURSIVE ReduceAdd(_, _)
ReduceAdd(acc, terms) ==
    IF terms = <<>> THEN acc ELSE ReduceAdd(PolyAdd(acc, terms[1]), Tail(terms))

\* a plausible slip: the running sum is replaced by the next term instead of added to
linear_combination_LastOnly(polynomials, challenges) ==
    IF LinTerms(polynomials, challenges) = <<>> THEN None
    ELSE Some(LinTerms(polynomials, challenges)[Len(LinTerms(polynomials, challenges))])

linear_combination(polynomials, challenges) ==
    LET terms == LinTerms(polynomials, challenges)
    IN IF terms = <<>> THEN None
       ELSE Some(ReduceAdd(terms[1], Tail(terms)))

-----------------------------------------------------------------------------
(* The Fiat-Shamir transcript (merlin::Transcript).  A transcript is held   *)
(* as the ordered record of what it absorbed: the initial label, every      *)
(* append_message, and every challenge_bytes request, which merlin absorbs  *)
(* too (label and length) before it squeezes.  The squeezed bytes are a     *)
(* fixed mixing function of that record, standing for the STROBE PRF.       *)

LabelCode(label) ==
    CASE label = "testing" -> 11
      [] label = "other" -> 12
      [] label = "open evals" -> 13
      [] label = "open points" -> 14
      [] label = "open gamma" -> 15
      [] label = "commitment" -> 16
      [] OTHER -> 17

KindCode(kind) ==
    CASE kind = "init" -> 1 [] kind = "msg" -> 2 [] kind = "chal" -> 3 [] OTHER -> 4

Absorb(h, x) == (h * 31 + x + 7) % 32749

\* the k-th byte squeezed from state h
Squeeze(h, k) == (((((h + k) * (h + k) + 1) % 32749) * (h + 31 * k)) \div 8) % 256

RECURSIVE AbsorbBytes(_, _)
AbsorbBytes(h, bytes) ==
    IF bytes = <<>> THEN h ELSE AbsorbBytes(Absorb(h, bytes[1]), Tail(bytes))

RECURSIVE StrobeState(_)
StrobeState(t) ==
    IF t = <<>> THEN 1
    ELSE LET e == t[Len(t)]
             h == StrobeState(SubSeq(t, 1, Len(t) - 1))
         IN AbsorbBytes(Absorb(Absorb(Absorb(h, KindCode(e.kind)), LabelCode(e.label)),
                               Len(e.bytes)),
                        e.bytes)

\* Transcript::new(label)
Transcript_new(label) == <<[kind |-> "init", label |-> label, bytes |-> <<>>]>>

\* Transcript::append_message(label, message)
append_message(t, label, message) ==
    Append(t, [kind |-> "msg", label |-> label, bytes |-> message])

\* Transcript::challenge_bytes(label, dest): the transcript after the request, and
\* the bytes written to dest (n of them)
challenge_bytes(t, label, n) ==
    LET after == Append(t, [kind |-> "chal", label |-> label, bytes |-> <<n>>])
    IN [t |-> after,
        dest |-> [k \in 1 .. n |-> Squeeze(StrobeState(after), k)]]

\* eval_bytes[start..start + len].copy_from(bytes), start counted from 0
WriteAt(buf, start, bytes) ==
    [k \in 1 .. Len(buf) |->
        IF k > start /\ k <= start + Len(bytes) THEN bytes[k - start] ELSE buf[k]]

\* the loop over the rows (i) and their entries (j), both counted from 0: the
\* row's length is tested when the row is entered, then each entry is written
RECURSIVE EvalLoop(_, _, _, _, _, _)
EvalLoop(evals, n_points, field_size_bytes, i, j, eval_bytes) ==
    IF i >= Len(evals) THEN Ok(eval_bytes)
    ELSE IF j = 0 /\ Len(evals[i + 1]) # n_points
    THEN [kind |-> "EvalsIncorrectSize", poly |-> i,
          n |-> Len(evals[i + 1]), expected |-> n_points]
    ELSE IF j >= Len(evals[i + 1])
    THEN EvalLoop(evals, n_points, field_size_bytes, i + 1, 0, eval_bytes)
    ELSE LET start == (i * n_points + j) * field_size_bytes
             w == serialize_into(evals[i + 1][j + 1], field_size_bytes)
         IN IF w.kind # "Ok" THEN Err0("SerializationError")
            ELSE EvalLoop(evals, n_points, field_size_bytes, i, j + 1,
                          WriteAt(eval_bytes, start, w.val))

RECURSIVE PointLoop(_, _, _, _)
PointLoop(points, field_size_bytes, i, point_bytes) ==
    IF i >= Len(points) THEN Ok(point_bytes)
    ELSE LET w == serialize_into(points[i + 1], field_size_bytes)
         IN IF w.kind # "Ok" THEN Err0("SerializationError")
            ELSE PointLoop(points, field_size_bytes, i + 1,
                           WriteAt(point_bytes, i * field_size_bytes, w.val))

\* the same loop with each row appended to the transcript as soon as it is
\* serialized: a plausible slip that appends before every row has been checked
RECURSIVE EvalLoopEager(_, _, _, _, _)
EvalLoopEager(t, evals, n_points, field_size_bytes, i) ==
    IF i >= Len(evals) THEN [res |-> Ok(Unit), t |-> t]
    ELSE IF Len(evals[i + 1]) # n_points
    THEN [res |-> [kind |-> "EvalsIncorrectSize", poly |-> i,
                   n |-> Len(evals[i + 1]), expected |-> n_points],
          t |-> t]
    ELSE LET row == EvalLoop(<<evals[i + 1]>>, n_points, field_size_bytes, 0, 0,
                             ZeroBytes(field_size_bytes * n_points))
         IN IF row.kind # "Ok" THEN [res |-> row, t |-> t]
            ELSE EvalLoopEager(append_message(t, "open evals", row.val), evals,
                               n_points, field_size_bytes, i + 1)

transcribe_points_and_evals_Eager(t, points, evals, field_size_bytes) ==
    LET e == EvalLoopEager(t, evals, Len(points), field_size_bytes, 0)
        p == PointLoop(points, field_size_bytes, 0,
                       ZeroBytes(field_size_bytes * Len(points)))
    IN IF e.res.kind # "Ok" THEN e
       ELSE IF p.kind # "Ok" THEN [res |-> p, t |-> e.t]
       ELSE [res |-> Ok(Unit), t |-> append_message(e.t, "open points", p.val)]

\* a plausible slip: the points are appended before the evaluations
transcribe_points_and_evals_PointsFirst(t, points, evals, field_size_bytes) ==
    LET e == EvalLoop(evals, Len(points), field_size_bytes, 0, 0,
                      ZeroBytes(field_size_bytes * Len(points) * Len(evals)))
        p == PointLoop(points, field_size_bytes, 0,
                       ZeroBytes(field_size_bytes * Len(points)))
    IN IF e.kind # "Ok" THEN [res |-> e, t |-> t]
       ELSE IF p.kind # "Ok" THEN [res |-> p, t |-> t]
       ELSE [res |-> Ok(Unit),
             t |-> append_message(append_message(t, "open points", p.val),
                                  "open evals", e.val)]

\* the result, and the transcript as the call leaves it
transcribe_points_and_evals(t, points, evals, field_size_bytes) ==
    LET n_points == Len(points)
        e == EvalLoop(evals, n_points, field_size_bytes, 0, 0,
                      ZeroBytes(field_size_bytes * n_points * Len(evals)))
        t1 == append_message(t, "open evals", e.val)
        p == PointLoop(points, field_size_bytes, 0,
                       ZeroBytes(field_size_bytes * n_points))
    IN IF e.kind # "Ok" THEN [res |-> e, t |-> t]
       ELSE IF p.kind # "Ok" THEN [res |-> p, t |-> t1]
       ELSE [res |-> Ok(Unit), t |-> append_message(t1, "open points", p.val)]

\* a plausible slip: the caller's label is dropped for a fixed one
transcribe_generic_FixedLabel(t, label, f) ==
    [res |-> Ok(Unit),
     t |-> append_message(t, "commitment", serialize_append(ZeroBytes(serialized_size), f))]

\* buf is a Vec of elt_size zero bytes and the writer is the Vec itself, which
\* the encoding is appended to: the message is the zero bytes and then the
\* encoding; writing to a Vec cannot fail
transcribe_generic(t, label, f) ==
    LET elt_size == serialized_size
        buf == serialize_append(ZeroBytes(elt_size), f)
    IN [res |-> Ok(Unit), t |-> append_message(t, label, buf)]

\* the challenge, and the transcript as the call leaves it
get_challenge(t, label, field_size_bytes) ==
    LET c == challenge_bytes(t, label, field_size_bytes)
    IN [val |-> from_be_bytes_mod_order(c.dest), t |-> c.t]

-----------------------------------------------------------------------------
(* Commitment engine: extend_commitments over ark_poly's evaluation domains. *)

RECURSIVE NextPow2From(_, _)
NextPow2From(n, p) == IF p >= n THEN p ELSE NextPow2From(n, 2 * p)

\* usize::next_power_of_two: the least power of two >= n (1 for n = 0)
next_power_of_two(n) == NextPow2From(n, 1)

\* GeneralEvaluationDomain::new(num_coeffs): the radix-2 domain of the next power
\* of two, or None when that exceeds the 2-adic subgroup of the field (the field
\* of the instance, like the BLS12-381 scalar field, has no mixed-radix subgroup)
GeneralEvaluationDomain_new(num_coeffs) ==
    LET size == next_power_of_two(num_coeffs)
    IN IF size > 2 ^ TWO_ADICITY THEN None
       ELSE Some([size |-> size,
                  group_gen |-> FPow(TWO_ADIC_ROOT_OF_UNITY, (2 ^ TWO_ADICITY) \div size),
                  size_inv |-> inverse(size % MODULUS).val])

\* Vec::resize(size, zero)
Resize(v, size) == [k \in 1 .. size |-> IF k <= Len(v) THEN v[k] ELSE 0]

RECURSIVE DftSum(_, _, _, _)
DftSum(v, w, j, k) ==
    IF k > Len(v) THEN 0
    ELSE FAdd(FMul(v[k], FPow(w, (j - 1) * (k - 1))), DftSum(v, w, j, k + 1))

\* EvaluationDomain::fft_in_place: the coefficients, resized to the domain, are
\* evaluated at the powers of group_gen, in order
fft_in_place(domain, coeffs) ==
    LET v == Resize(coeffs, domain.size)
    IN [j \in 1 .. domain.size |-> DftSum(v, domain.group_gen, j, 1)]

\* EvaluationDomain::ifft_in_place: the evaluations, resized to the domain, are
\* interpolated: the inverse transform, scaled by 1 / size
ifft_in_place(domain, evals) ==
    LET v == Resize(evals, domain.size)
    IN [j \in 1 .. domain.size |->
          FMul(domain.size_inv, DftSum(v, inverse(domain.group_gen).val, j, 1))]

\* a plausible slip: the forward transform is applied without the inverse one
extend_commitments_NoInverse(commits, output_size) ==
    IF GeneralEvaluationDomain_new(Len(commits)).kind = "None"
    THEN [kind |-> "DomainConstructionFailed", size |-> Len(commits)]
    ELSE IF GeneralEvaluationDomain_new(output_size).kind = "None"
    THEN [kind |-> "DomainConstructionFailed", size |-> output_size]
    ELSE Ok(fft_in_place(GeneralEvaluationDomain_new(output_size).val, commits))

\* Commitment::extend_commitments; the affine / projective conversions keep the
\* group element, which the model holds in one form
extend_commitments(commits, output_size) ==
    LET vals == commits
        domain == GeneralEvaluationDomain_new(Len(vals))
        domain_ext == GeneralEvaluationDomain_new(output_size)
    IN IF domain.kind = "None"
       THEN [kind |-> "DomainConstructionFailed", size |-> Len(vals)]
       ELSE IF domain_ext.kind = "None"
       THEN [kind |-> "DomainConstructionFailed", size |-> output_size]
       ELSE Ok(fft_in_place(domain_ext.val, ifft_in_place(domain.val, vals)))

-----------------------------------------------------------------------------
(* The structured reference string and the commit / open / verify contract *)
(* (method 1, arbitrary point sets).                                        *)

\* gen_curve_powers: [powers_i * base], normalized to affine
gen_curve_powers(powers, base) == [i \in 1 .. Len(powers) |-> FMul(powers[i], base)]

\* the number of powers of the secret in the first group: the largest number of
\* coefficients the setup provides for
SrsLen == 4

\* the number of powers of the secret in the second group: one more than the
\* largest point set the setup provides for
SrsLenG2 == 3

\* the secret of the setup
SrsSecret == 5

\* the reference string: the powers of the secret times the generator (1) of
\* the first and of the second group
Srs ==
    [g1 |-> gen_curve_powers(gen_powers(SrsSecret, SrsLen), 1),
     g2 |-> gen_curve_powers(gen_powers(SrsSecret, SrsLenG2), 1)]

\* the bilinear pairing of two group elements
Pairing(a, b) == FMul(a, b)

\* commit(coefficients): the MSM of the coefficients against the prefix of the SRS
commit(coefficients) == curve_msm(Srs.g1, coefficients)

\* the result of open (Ok with the proof, or the error), and the transcript as
\* the call leaves it
open(t, evals, polys, points) ==
    LET chk == check_opening_sizes(evals, polys, points)
        tr == transcribe_points_and_evals(t, points, evals, get_field_size)
        gamma == get_challenge(tr.t, "open gamma", get_field_size)
        gammas == gen_powers(gamma.val, Len(polys))
        fsum == linear_combination(polys, gammas)
        qr == poly_div_q_r(fsum.val, vanishing_polynomial(points))
    IN IF chk.kind # "Ok" THEN [res |-> chk, t |-> t]
       ELSE IF tr.res.kind # "Ok" THEN tr
       ELSE IF fsum.kind = "None" THEN [res |-> Err0("NoPolynomialsGiven"), t |-> gamma.t]
       ELSE IF points = <<>> THEN [res |-> Err0("NoPointsGiven"), t |-> gamma.t]
       ELSE IF qr.kind # "Ok" THEN [res |-> qr, t |-> gamma.t]
       ELSE [res |-> commit(qr.val[1]), t |-> gamma.t]

\* the points without the j-th
Without(points, j) == SubSeq(points, 1, j - 1) \o SubSeq(points, j + 1, Len(points))

\* the j-th Lagrange basis polynomial of the point set
\* (None when the point is repeated: the denominator has no inverse)
LagrangeBasis(points, j) ==
    LET num == vanishing_polynomial(Without(points, j))
        inv == inverse(PolyEval(num, points[j]))
    IN IF inv.kind = "None" THEN None ELSE Some(PolyScale(num, inv.val))

RECURSIVE WeightedEval(_, _, _, _)
WeightedEval(evals, gammas, j, i) ==
    IF i > Len(evals) THEN 0
    ELSE FAdd(FMul(gammas[i], evals[i][j]), WeightedEval(evals, gammas, j, i + 1))

\* the result of verify (Ok with the verdict, or the error), and the transcript
\* as the call leaves it
verify(t, commits, points, evals, proof) ==
    LET chk == check_verify_sizes(commits, points, evals)
        tr == transcribe_points_and_evals(t, points, evals, get_field_size)
        gamma == get_challenge(tr.t, "open gamma", get_field_size)
        gammas == gen_powers(gamma.val, Len(commits))
        agg == curve_msm(commits, gammas)
        basis == [j \in 1 .. Len(points) |-> LagrangeBasis(points, j)]
        lag == [j \in 1 .. Len(points) |->
                  IF basis[j].kind = "None" THEN Err0("DivisorIsZero")
                  ELSE curve_msm(Srs.g1, basis[j].val)]
        w == [j \in 1 .. Len(points) |-> WeightedEval(evals, gammas, j, 1)]
        rc == curve_msm([j \in 1 .. Len(points) |-> lag[j].val], w)
        z2 == curve_msm(Srs.g2, vanishing_polynomial(points))
    IN IF chk.kind # "Ok" THEN [res |-> chk, t |-> t]
       ELSE IF tr.res.kind # "Ok" THEN tr
       ELSE IF agg.kind # "Ok" THEN [res |-> agg, t |-> gamma.t]
       ELSE IF \E j \in 1 .. Len(points) : lag[j].kind # "Ok"
       THEN [res |-> lag[CHOOSE j \in 1 .. Len(points) : lag[j].kind # "Ok"], t |-> gamma.t]
       ELSE IF z2.kind # "Ok" THEN [res |-> z2, t |-> gamma.t]
       ELSE [res |-> Ok(Pairing(FSub(agg.val, rc.val), Srs.g2[1]) = Pairing(proof, z2.val)),
             t |-> gamma.t]

\* open with a registered point set, named by its index (from 0) in the
\* registry built at construction: the open of the point set found there
open_precomp(t, evals, polys, point_sets, point_set_index) ==
    open(t, evals, polys, point_sets[point_set_index + 1])

\* verify with a registered point set, named by its index
verify_precomp(t, commits, point_sets, point_set_index, evals, proof) ==
    verify(t, commits, point_sets[point_set_index + 1], evals, proof)

-----------------------------------------------------------------------------
(* State shared by the specifications.  call and ret hold the last call and *)
(* its result; transcript holds the transcript of each session; log, chal,  *)
(* pc and sess are used by the specifications that need them.               *)

Sessions == {1, 2}

InitLabels == {"testing", "other"}

NoSession == [stage |-> "none"]

Quiet ==
    /\ call = Idle
    /\ ret = None
    /\ transcript = [s \in Sessions |-> Transcript_new("testing")]
    /\ log = [s \in Sessions |-> <<>>]
    /\ chal = [s \in Sessions |-> None]
    /\ pc = "idle"
    /\ sess = NoSession

\* the first n points of a fixed sequence of distinct points
PointsOfLen(n) == [k \in 1 .. n |-> k]

\* n polynomials X + k, n commitments
PolysOfLen(n) == [k \in 1 .. n |-> <<k, 1>>]
CommitsOfLen(n) == [k \in 1 .. n |-> 7 * k]

-----------------------------------------------------------------------------
(* SpecShapes: the shape checks and the transcription, each called on a     *)
(* fresh transcript, as the tests of the crate call open and verify.        *)

ShapeVals == {3, 256}
ShapePointVals == {1, 256}

\* evaluation matrices of every shape, ragged ones included
UnitEvals == SeqsUpTo(SeqsUpTo({3}, MaxCols), MaxRows)
ShapeEvals == SeqsUpTo(SeqsUpTo(ShapeVals, MaxCols), MaxRows)
ShapePoints == SeqsUpTo(ShapePointVals, MaxCols)

\* Transcript::new(label) in session 1
Fresh ==
    /\ pc = "called"
    /\ \E label \in InitLabels :
          /\ transcript' = [transcript EXCEPT ![1] = Transcript_new(label)]
          /\ call' = [op |-> "Transcript::new", label |-> label]
    /\ ret' = None
    /\ pc' = "idle"
    /\ UNCHANGED <<log, chal, sess>>

CheckOpening ==
    /\ pc = "idle"
    /\ \E evals \in UnitEvals, np \in 0 .. MaxRows, npts \in 0 .. MaxCols :
          /\ call' = [op |-> "check_opening_sizes", evals |-> evals,
                      polys |-> PolysOfLen(np), points |-> PointsOfLen(npts)]
          /\ ret' = check_opening_sizes(evals, PolysOfLen(np), PointsOfLen(npts))
    /\ pc' = "called"
    /\ UNCHANGED <<transcript, log, chal, sess>>

CheckVerify ==
    /\ pc = "idle"
    /\ \E evals \in UnitEvals, nc \in 0 .. MaxRows, npts \in 0 .. MaxCols :
          /\ call' = [op |-> "check_verify_sizes", commits |-> CommitsOfLen(nc),
                      points |-> PointsOfLen(npts), evals |-> evals]
          /\ ret' = check_verify_sizes(CommitsOfLen(nc), PointsOfLen(npts), evals)
    /\ pc' = "called"
    /\ UNCHANGED <<transcript, log, chal, sess>>

OpenCall ==
    /\ pc = "idle"
    /\ \E evals \in UnitEvals, np \in 0 .. MaxRows, npts \in 0 .. MaxCols :
          LET r == open(transcript[1], evals, PolysOfLen(np), PointsOfLen(npts))
          IN /\ call' = [op |-> "open", evals |-> evals,
                         polys |-> PolysOfLen(np), points |-> PointsOfLen(npts)]
             /\ ret' = r.res
             /\ transcript' = [transcript EXCEPT ![1] = r.t]
    /\ pc' = "called"
    /\ UNCHANGED <<log, chal, sess>>

VerifyCall ==
    /\ pc = "idle"
    /\ \E evals \in UnitEvals, nc \in 0 .. MaxRows, npts \in 0 .. MaxCols :
          LET r == verify(transcript[1], CommitsOfLen(nc), PointsOfLen(npts), evals, 9)
          IN /\ call' = [op |-> "verify", commits |-> CommitsOfLen(nc),
                         points |-> PointsOfLen(npts), evals |-> evals]
             /\ ret' = r.res
             /\ transcript' = [transcript EXCEPT ![1] = r.t]
    /\ pc' = "called"
    /\ UNCHANGED <<log, chal, sess>>

Transcribe ==
    /\ pc = "idle"
    /\ \E points \in ShapePoints, evals \in ShapeEvals :
          LET r == transcribe_points_and_evals(transcript[1], points, evals,
                                               get_field_size)
          IN /\ call' = [op |-> "transcribe_points_and_evals", points |-> points,
                         evals |-> evals, field_size_bytes |-> get_field_size]
             /\ ret' = r.res
             /\ transcript' = [transcript EXCEPT ![1] = r.t]
    /\ pc' = "called"
    /\ UNCHANGED <<log, chal, sess>>

NextShapes == Fresh \/ CheckOpening \/ CheckVerify \/ OpenCall \/ VerifyCall \/ Transcribe

SpecShapes == Quiet /\ [][NextShapes]_vars

-----------------------------------------------------------------------------
(* Properties of the shape checks and of the transcription (SpecShapes).    *)

RowsFit(evals, n) == \A i \in 1 .. Len(evals) : Len(evals[i]) = n

\* the first row (1-based) whose length is not n
FirstBad(evals, n) ==
    CHOOSE i \in 1 .. Len(evals) :
        /\ Len(evals[i]) # n
        /\ \A k \in 1 .. (i - 1) : Len(evals[k]) = n

ShapeErrors ==
    {"EvalsAndPolysDifferentSizes", "EvalsAndPointsDifferentSizes",
     "EvalsAndCommitsDifferentSizes"}

\* what the opening check is to answer for these shapes
OpeningAnswer(evals, polys, points) ==
    IF Len(evals) # Len(polys)
    THEN [kind |-> "EvalsAndPolysDifferentSizes",
          n_eval_rows |-> Len(evals), n_polys |-> Len(polys)]
    ELSE IF ~RowsFit(evals, Len(points))
    THEN [kind |-> "EvalsAndPointsDifferentSizes",
          n_evals |-> Len(evals[FirstBad(evals, Len(points))]),
          n_points |-> Len(points)]
    ELSE Ok(Unit)

\* what the verify check is to answer for these shapes
VerifyAnswer(commits, points, evals) ==
    IF Len(commits) # Len(evals)
    THEN [kind |-> "EvalsAndCommitsDifferentSizes",
          n_evals |-> Len(evals), n_commits |-> Len(commits)]
    ELSE IF ~RowsFit(evals, Len(points))
    THEN [kind |-> "EvalsAndPointsDifferentSizes",
          n_evals |-> Len(evals[FirstBad(evals, Len(points))]),
          n_points |-> Len(points)]
    ELSE Ok(Unit)

\* C2: check_opening_sizes answers Ok exactly when the row count equals the
\* polynomial count and every row has one entry per point; a row-count mismatch
\* is reported as EvalsAndPolysDifferentSizes with both counts (also when a row
\* is ragged too), otherwise the first ragged row is reported as
\* EvalsAndPointsDifferentSizes with its length and the point count; open
\* returns that same error before doing anything else.
C2_OpeningSizes ==
    /\ call.op = "check_opening_sizes" =>
          /\ ret = OpeningAnswer(call.evals, call.polys, call.points)
          /\ (ret.kind = "Ok") <=>
                (Len(call.evals) = Len(call.polys)
                   /\ RowsFit(call.evals, Len(call.points)))
    /\ (call.op = "open"
          /\ OpeningAnswer(call.evals, call.polys, call.points).kind # "Ok") =>
          ret = OpeningAnswer(call.evals, call.polys, call.points)

\* a row-count mismatch together with a ragged row, reported as the count mismatch
C2_Witness ==
    /\ call.op = "check_opening_sizes"
    /\ Len(call.evals) # Len(call.polys)
    /\ ~RowsFit(call.evals, Len(call.points))
    /\ ret.kind = "EvalsAndPolysDifferentSizes"

\* C3: check_verify_sizes answers Ok exactly when the commitment count equals
\* the row count and every row has one entry per point; a count mismatch is
\* EvalsAndCommitsDifferentSizes{n_evals = rows, n_commits = commitments},
\* otherwise the first ragged row is EvalsAndPointsDifferentSizes; verify
\* returns these as errors, never as Ok(false).
C3_VerifySizes ==
    /\ call.op = "check_verify_sizes" =>
          /\ ret = VerifyAnswer(call.commits, call.points, call.evals)
          /\ (ret.kind = "Ok") <=>
                (Len(call.commits) = Len(call.evals)
                   /\ RowsFit(call.evals, Len(call.points)))
    /\ (call.op = "verify"
          /\ VerifyAnswer(call.commits, call.points, call.evals).kind # "Ok") =>
          ret = VerifyAnswer(call.commits, call.points, call.evals)

\* verify called with one commitment too few
C3_Witness ==
    /\ call.op = "verify"
    /\ Len(call.commits) + 1 = Len(call.evals)
    /\ ret.kind = "EvalsAndCommitsDifferentSizes"

\* the message appended for the evaluations, entry (i, j) at offset
\* (i * n_points + j) * field_size, and the one appended for the points
EvalsLaidOut(m, evals, n_points, fs) ==
    /\ m.kind = "msg"
    /\ m.label = "open evals"
    /\ Len(m.bytes) = fs * n_points * Len(evals)
    /\ \A i \in 0 .. (Len(evals) - 1) : \A j \in 0 .. (n_points - 1) :
          SubSeq(m.bytes, (i * n_points + j) * fs + 1, (i * n_points + j) * fs + fs)
             = serialize(evals[i + 1][j + 1])

PointsLaidOut(m, points, fs) ==
    /\ m.kind = "msg"
    /\ m.label = "open points"
    /\ Len(m.bytes) = fs * Len(points)
    /\ \A i \in 0 .. (Len(points) - 1) :
          SubSeq(m.bytes, i * fs + 1, i * fs + fs) = serialize(points[i + 1])

\* C7: on well-shaped input transcribe_points_and_evals appends exactly two
\* messages to the transcript, first the evaluations under "open evals",
\* polynomial-major then point-minor, then the points under "open points"; with
\* a ragged row it fails with EvalsIncorrectSize naming the first such row
\* (0-based), its length and the point count.
C7_TranscribeLayout ==
    [][call'.op = "transcribe_points_and_evals" =>
          LET n == Len(call'.points)
              before == transcript[1]
              after == transcript'[1]
          IN IF RowsFit(call'.evals, n)
             THEN /\ ret' = Ok(Unit)
                  /\ Len(after) = Len(before) + 2
                  /\ SubSeq(after, 1, Len(before)) = before
                  /\ EvalsLaidOut(after[Len(before) + 1], call'.evals, n,
                                  call'.field_size_bytes)
                  /\ PointsLaidOut(after[Len(before) + 2], call'.points,
                                   call'.field_size_bytes)
             ELSE ret' = [kind |-> "EvalsIncorrectSize",
                          poly |-> FirstBad(call'.evals, n) - 1,
                          n |-> Len(call'.evals[FirstBad(call'.evals, n)]),
                          expected |-> n]]_vars

\* a 2 x 2 matrix that differs from its transpose has been transcribed
C7_Witness ==
    /\ call.op = "transcribe_points_and_evals"
    /\ ret.kind = "Ok"
    /\ Len(call.evals) = 2
    /\ Len(call.points) = 2
    /\ call.evals[1][2] # call.evals[2][1]
    /\ Len(transcript[1]) = 3

\* C10: a call that ends in a shape error leaves the transcript as it was:
\* transcribe_points_and_evals checks every row before its first append, and
\* the two shape checks, run first by open and verify, never touch it.
C10_ShapeErrorFrame ==
    [][(\/ /\ call'.op = "transcribe_points_and_evals"
           /\ ret'.kind = "EvalsIncorrectSize"
        \/ call'.op \in {"check_opening_sizes", "check_verify_sizes"}
        \/ /\ call'.op \in {"open", "verify"}
           /\ ret'.kind \in ShapeErrors)
          => transcript' = transcript]_vars

\* a later row was ragged: the rows before it had been serialized already
C10_Witness ==
    /\ call.op = "transcribe_points_and_evals"
    /\ ret.kind = "EvalsIncorrectSize"
    /\ ret.poly >= 1
    /\ Len(call.points) >= 1
    /\ Len(transcript[1]) = 1

-----------------------------------------------------------------------------
(* SpecMsm, SpecPoly, SpecExtend: the pure helpers, each applied to inputs  *)
(* drawn from bounded sets.                                                 *)

\* the caller takes the result and is ready for the next call
Done ==
    /\ pc = "called"
    /\ call' = Idle
    /\ ret' = None
    /\ pc' = "idle"
    /\ UNCHANGED <<transcript, log, chal, sess>>

MsmBases == {0, 1, 200}
MsmScalars == {0, 2, 256}

Msm ==
    /\ pc = "idle"
    /\ \E bases \in SeqsUpTo(MsmBases, MaxMsm), scalars \in SeqsUpTo(MsmScalars, MaxMsm) :
          /\ call' = [op |-> "curve_msm", bases |-> bases, scalars |-> scalars]
          /\ ret' = curve_msm(bases, scalars)
    /\ pc' = "called"
    /\ UNCHANGED <<transcript, log, chal, sess>>

NextMsm == Msm \/ Done

SpecMsm == Quiet /\ [][NextMsm]_vars

LinCoefVals == {0, 3}
LinChallenges == {0, 2}
CoefVals == {0, 1, 256}
VanishPoints == {0, 1, 256}

\* dense polynomials of at most n coefficients
NormPolys(n) == {from_coefficients_vec(c) : c \in SeqsUpTo(CoefVals, n)}

LinComb ==
    /\ pc = "idle"
    /\ \E polys \in SeqsUpTo(SeqsUpTo(LinCoefVals, MaxLin), MaxLin),
          challenges \in SeqsUpTo(LinChallenges, MaxLin) :
          /\ call' = [op |-> "linear_combination", polys |-> polys,
                      challenges |-> challenges]
          /\ ret' = linear_combination(polys, challenges)
    /\ pc' = "called"
    /\ UNCHANGED <<transcript, log, chal, sess>>

Vanish ==
    /\ pc = "idle"
    /\ \E points \in SeqsUpTo(VanishPoints, MaxVanish) :
          /\ call' = [op |-> "vanishing_polynomial", points |-> points]
          /\ ret' = vanishing_polynomial(points)
    /\ pc' = "called"
    /\ UNCHANGED <<transcript, log, chal, sess>>

Div ==
    /\ pc = "idle"
    /\ \E num \in NormPolys(MaxCoeffs), denom \in NormPolys(MaxCoeffs) :
          /\ call' = [op |-> "poly_div_q_r", num |-> num, denom |-> denom]
          /\ ret' = poly_div_q_r(num, denom)
    /\ pc' = "called"
    /\ UNCHANGED <<transcript, log, chal, sess>>

\* the division open performs: by the vanishing polynomial of a point set
DivVanishing ==
    /\ pc = "idle"
    /\ \E num \in NormPolys(MaxCoeffs), points \in SeqsUpTo(VanishPoints, MaxVanish) :
          /\ call' = [op |-> "poly_div_q_r by vanishing_polynomial", num |-> num,
                      points |-> points, denom |-> vanishing_polynomial(points)]
          /\ ret' = poly_div_q_r(num, vanishing_polynomial(points))
    /\ pc' = "called"
    /\ UNCHANGED <<transcript, log, chal, sess>>

NextPoly == LinComb \/ Vanish \/ Div \/ DivVanishing \/ Done

SpecPoly == Quiet /\ [][NextPoly]_vars

CommitVals == {0, 1, 200}

\* a size no domain of the field can hold
OversizeDomain == 2 ^ TWO_ADICITY + 1

\* the output sizes tried for n commitments: every size from n up (so that the
\* extended domain holds the interpolated coefficients), and one too large
OutSizes(n) == (n .. (2 * MaxCommits)) \cup {OversizeDomain}

Extend ==
    /\ pc = "idle"
    /\ \E commits \in SeqsUpTo(CommitVals, MaxCommits) :
          \E output_size \in OutSizes(Len(commits)) :
             /\ call' = [op |-> "extend_commitments", commits |-> commits,
                         output_size |-> output_size]
             /\ ret' = extend_commitments(commits, output_size)
    /\ pc' = "called"
    /\ UNCHANGED <<transcript, log, chal, sess>>

NextExtend == Extend \/ Done

SpecExtend == Quiet /\ [][NextExtend]_vars

-----------------------------------------------------------------------------
(* Properties of the pure helpers.                                          *)

\* scalars[1] * bases[1] + ... + scalars[n] * bases[n]
RECURSIVE PrefixSum(_, _, _)
PrefixSum(bases, scalars, n) ==
    IF n = 0 THEN 0
    ELSE (PrefixSum(bases, scalars, n - 1) + scalars[n] * bases[n]) % MODULUS

\* C5: curve_msm fails with TooManyScalars{n_coeffs = len(scalars),
\* expected_max = len(bases)} exactly when there are more scalars than bases,
\* and otherwise returns the sum of scalar_i * base_i over the first
\* len(scalars) bases, whatever the bases after them are.
C5_CurveMsm ==
    call.op = "curve_msm" =>
       IF Len(call.scalars) > Len(call.bases)
       THEN ret = [kind |-> "TooManyScalars", n_coeffs |-> Len(call.scalars),
                   expected_max |-> Len(call.bases)]
       ELSE ret = Ok(PrefixSum(call.bases, call.scalars, Len(call.scalars)))

\* fewer scalars than bases, and a base beyond the prefix that would have counted
C5_Witness ==
    /\ call.op = "curve_msm"
    /\ Len(call.scalars) >= 1
    /\ Len(call.scalars) < Len(call.bases)
    /\ call.bases[Len(call.bases)] # 0
    /\ ret.kind = "Ok"
    /\ ret.val # 0

RECURSIVE MaxLen(_)
MaxLen(polys) ==
    IF polys = <<>> THEN 0 ELSE Max2(Len(polys[1]), MaxLen(Tail(polys)))

\* the k-th coefficient of challenges[1] * polys[1] + ... + challenges[n] * polys[n]
RECURSIVE CoefSum(_, _, _, _)
CoefSum(polys, challenges, n, k) ==
    IF n = 0 THEN 0
    ELSE (CoefSum(polys, challenges, n - 1, k)
            + challenges[n] * Coeff(polys[n], k)) % MODULUS

\* the weighted sum of the first n polynomials, as a dense polynomial
WeightedSum(polys, challenges, n) ==
    from_coefficients_vec([k \in 1 .. MaxLen(polys) |-> CoefSum(polys, challenges, n, k)])

\* C8 as stated: every non-empty list of polynomials yields the sum over every
\* polynomial of challenge_i * poly_i, and only the empty list yields None.
C8_Original ==
    call.op = "linear_combination" =>
       IF call.polys = <<>> THEN ret = None
       ELSE /\ ret.kind = "Some"
            /\ ret.val = WeightedSum(call.polys,
                                     Resize(call.challenges, Len(call.polys)),
                                     Len(call.polys))

\* C8 (amended): linear_combination pairs the polynomials with the challenges
\* up to the shorter of the two lists; it returns the dense polynomial equal to
\* the sum of challenge_i * poly_i over those pairs, and None exactly when
\* there is no pair.
C8_LinearCombination ==
    call.op = "linear_combination" =>
       LET n == Min2(Len(call.polys), Len(call.challenges))
       IN IF n = 0 THEN ret = None
          ELSE ret = Some(WeightedSum(SubSeq(call.polys, 1, n), call.challenges, n))

\* two polynomials of different lengths, both weighted by a non-zero challenge
C8_Witness ==
    /\ call.op = "linear_combination"
    /\ Len(call.polys) = 2
    /\ Len(call.challenges) = 2
    /\ Len(from_coefficients_vec(call.polys[1])) # Len(from_coefficients_vec(call.polys[2]))
    /\ call.challenges[1] # 0
    /\ call.challenges[2] # 0
    /\ ret.kind = "Some"
    /\ ret.val # <<>>

\* the value at x of the product of (x - p) over the points
RECURSIVE RootProduct(_, _)
RootProduct(points, x) ==
    IF points = <<>> THEN 1
    ELSE ((x - points[1]) * RootProduct(Tail(points), x)) % MODULUS

IsDense(p) == p = <<>> \/ p[Len(p)] # 0

DivisionHolds(num, denom, r) ==
    /\ r.kind = "Ok"
    /\ IsDense(r.val[1])
    /\ IsDense(r.val[2])
    /\ PolyAdd(naive_mul(r.val[1], denom), r.val[2]) = num
    /\ Len(r.val[2]) < Len(denom)

\* C9: poly_div_q_r fails with DivisorIsZero exactly when the denominator is
\* zero and otherwise returns q, r with numerator = q * denominator + r and
\* deg r < deg denominator; vanishing_polynomial returns the monic polynomial of
\* degree len(points) with the value of prod (x - p_i) everywhere, zero at every
\* point, so dividing by it never fails.
C9_Division ==
    /\ call.op = "poly_div_q_r" =>
          IF call.denom = <<>> THEN ret = Err0("DivisorIsZero")
          ELSE DivisionHolds(call.num, call.denom, ret)
    /\ call.op = "vanishing_polynomial" =>
          /\ Len(ret) = Len(call.points) + 1
          /\ ret[Len(ret)] = 1
          /\ \A i \in 1 .. Len(call.points) : PolyEval(ret, call.points[i]) = 0
          /\ \A x \in 0 .. Len(call.points) :
                PolyEval(ret, x) = RootProduct(call.points, x)
    /\ call.op = "poly_div_q_r by vanishing_polynomial" =>
          DivisionHolds(call.num, call.denom, ret)

\* a polynomial divided by the vanishing polynomial of two points, with a
\* quotient and a remainder that are both non-zero
C9_Witness ==
    /\ call.op = "poly_div_q_r by vanishing_polynomial"
    /\ Len(call.points) = 2
    /\ ret.kind = "Ok"
    /\ ret.val[1] # <<>>
    /\ ret.val[2] # <<>>

DomainFits(n) == next_power_of_two(n) <= 2 ^ TWO_ADICITY

-----------------------------------------------------------------------------
(* SpecFS: two transcript sessions, each fed by the transcription helpers   *)
(* and asked for challenges.  log is the record of what each session was    *)
(* fed, as labelled bytes: it is written from the calls' arguments, not     *)
(* read back from the transcript.                                           *)

FsVals == {1, 256}
FsLabels == {"open evals", "open points"}

\* one value, or a zero and then one value
FsSeqs == {<<x>> : x \in FsVals} \cup {<<0, x>> : x \in FsVals}

\* the encodings of the values, one after the other
Encoded(xs) ==
    [k \in 1 .. serialized_size * Len(xs) |->
       serialize(xs[((k - 1) \div serialized_size) + 1])[((k - 1) % serialized_size) + 1]]

Fed(label, bytes) == [kind |-> "append", label |-> label, bytes |-> bytes]
Asked(label, n) == [kind |-> "challenge", label |-> label, bytes |-> <<n>>]

Absorbed == Len(transcript[1]) + Len(transcript[2]) - 2

InitFS ==
    /\ call = Idle
    /\ ret = None
    /\ \E label \in InitLabels :
          transcript = [s \in Sessions |->
                          Transcript_new(IF s = 1 THEN "testing" ELSE label)]
    /\ log = [s \in Sessions |-> <<>>]
    /\ chal = [s \in Sessions |-> None]
    /\ pc = "idle"
    /\ sess = NoSession

\* one or two points and one row, which has the length of the points or not
FsTranscribe(s) ==
    /\ Absorbed + 2 <= MaxOps
    /\ \E points \in FsSeqs, row \in FsSeqs :
          LET r == transcribe_points_and_evals(transcript[s], points, <<row>>,
                                               get_field_size)
          IN /\ transcript' = [transcript EXCEPT ![s] = r.t]
             /\ log' = [log EXCEPT ![s] =
                          IF r.res.kind = "Ok"
                          THEN @ \o <<Fed("open evals", Encoded(row)),
                                      Fed("open points", Encoded(points))>>
                          ELSE @]
    /\ UNCHANGED <<call, ret, chal, pc, sess>>

FsGeneric(s) ==
    /\ Absorbed + 1 <= MaxOps
    /\ \E label \in FsLabels, f \in FsVals :
          /\ transcript' = [transcript EXCEPT ![s] = transcribe_generic(@, label, f).t]
          /\ log' = [log EXCEPT ![s] =
                       Append(@, Fed(label, ZeroBytes(serialized_size) \o Encoded(<<f>>)))]
    /\ UNCHANGED <<call, ret, chal, pc, sess>>

FsChallenge(s) ==
    /\ Absorbed + 1 <= MaxOps
    /\ LET g == get_challenge(transcript[s], "open gamma", get_field_size)
       IN /\ transcript' = [transcript EXCEPT ![s] = g.t]
          /\ chal' = [chal EXCEPT ![s] = Some(g.val)]
    /\ log' = [log EXCEPT ![s] = Append(@, Asked("open gamma", get_field_size))]
    /\ UNCHANGED <<call, ret, pc, sess>>

NextFS == \E s \in Sessions : FsTranscribe(s) \/ FsGeneric(s) \/ FsChallenge(s)

SpecFS == InitFS /\ [][NextFS]_vars

SameLabel == transcript[1][1].label = transcript[2][1].label

NextChallenge(s) == get_challenge(transcript[s], "open gamma", get_field_size).val

IsFed(e) == e.kind = "append"

\* C6 as stated: sessions with the same initial label and the same ordered
\* appends get the same challenge: the challenge depends on the appends only.
C6_Original ==
    (SameLabel /\ SelectSeq(log[1], IsFed) = SelectSeq(log[2], IsFed)) =>
       NextChallenge(1) = NextChallenge(2)

\* C6 (amended): sessions with the same initial label that were fed the same
\* ordered labelled bytes and asked for the same challenges at the same places
\* (get_challenge advances the transcript too) got the same last challenge and
\* get the same next one.
C6_ChallengeDeterminism ==
    (SameLabel /\ log[1] = log[2]) =>
       /\ chal[1] = chal[2]
       /\ NextChallenge(1) = NextChallenge(2)

\* both sessions were fed the same element by transcribe_generic and then
\* asked for a challenge
C6_Witness ==
    /\ SameLabel
    /\ log[1] = log[2]
    /\ Len(log[1]) = 2
    /\ log[1][1].kind = "append"
    /\ chal[1] # None
    /\ chal[1] = chal[2]

-----------------------------------------------------------------------------
(* SpecProto: one session of the tests' scenario: polynomials and points    *)
(* are chosen and the polynomials evaluated at the points, every polynomial *)
(* is committed, open runs on a fresh transcript, and verify runs on a      *)
(* second fresh transcript with the same label; the points are passed to   *)
(* open and verify, or are the scheme's zero-th registered point set and    *)
(* are named by their index.                                                *)

\* polynomials of several degrees; the last one is longer than the SRS
PolyPool == {<<1>>, <<0, 1>>, <<3, 0, 2>>, <<1, 2, 3, 4>>, <<5, 0, 0, 0, 1>>}
PointPool == {0, 1, 3}

Distinct(points) ==
    \A i \in 1 .. Len(points) : \A j \in 1 .. Len(points) :
        i # j => points[i] # points[j]

\* evals[i][j] = polys[i](points[j])
Evaluate(polys, points) ==
    [i \in 1 .. Len(polys) |-> [j \in 1 .. Len(points) |-> PolyEval(polys[i], points[j])]]

\* test_basic_no_precomp draws the points and the polynomials
Choose ==
    /\ pc = "idle"
    /\ \E polys \in SeqsUpTo(PolyPool, MaxPolys), points \in SeqsUpTo(PointPool, MaxPoints),
          label \in InitLabels :
          sess' = [stage |-> "chosen", label |-> label, polys |-> polys,
                   points |-> points, evals |-> Evaluate(polys, points),
                   commits |-> <<>>, proof |-> 0, point_sets |-> <<>>]
    /\ pc' = "chosen"
    /\ call' = [op |-> "choose"]
    /\ UNCHANGED <<ret, transcript, log, chal>>

\* test_basic_precomp is given the points, which the scheme holds as its
\* zero-th point set, and draws the polynomials
ChoosePrecomp ==
    /\ pc = "idle"
    /\ \E polys \in SeqsUpTo(PolyPool, MaxPolys), points \in SeqsUpTo(PointPool, MaxPoints),
          label \in InitLabels :
          sess' = [stage |-> "chosen", label |-> label, polys |-> polys,
                   points |-> points, evals |-> Evaluate(polys, points),
                   commits |-> <<>>, proof |-> 0, point_sets |-> <<points>>]
    /\ pc' = "chosen"
    /\ call' = [op |-> "choose_precomp"]
    /\ UNCHANGED <<ret, transcript, log, chal>>

\* coeffs.iter().map(|p| s.commit(p).expect("Commit failed"))
CommitAll ==
    /\ pc = "chosen"
    /\ LET cs == [i \in 1 .. Len(sess.polys) |-> commit(sess.polys[i])]
           bad == {i \in 1 .. Len(cs) : cs[i].kind # "Ok"}
       IN IF bad = {}
          THEN /\ sess' = [sess EXCEPT !.stage = "committed",
                                       !.commits = [i \in 1 .. Len(cs) |-> cs[i].val]]
               /\ ret' = Ok(Unit)
               /\ pc' = "committed"
          ELSE /\ sess' = [sess EXCEPT !.stage = "failed"]
               /\ ret' = cs[CHOOSE i \in bad : \A k \in bad : i <= k]
               /\ pc' = "failed"
    /\ call' = [op |-> "commit"]
    /\ UNCHANGED <<transcript, log, chal>>

\* s.open(&mut Transcript::new(label), &evals, &coeffs, &points)
Open ==
    /\ pc = "committed"
    /\ sess.point_sets = <<>>
    /\ LET r == open(Transcript_new(sess.label), sess.evals, sess.polys, sess.points)
       IN /\ transcript' = [transcript EXCEPT ![1] = r.t]
          /\ ret' = r.res
          /\ IF r.res.kind = "Ok"
             THEN /\ sess' = [sess EXCEPT !.stage = "opened", !.proof = r.res.val]
                  /\ pc' = "opened"
             ELSE /\ sess' = [sess EXCEPT !.stage = "failed"]
                  /\ pc' = "failed"
    /\ call' = [op |-> "open"]
    /\ UNCHANGED <<log, chal>>

\* s.verify(&mut Transcript::new(label), &commits, &points, &evals, &open)
Verify ==
    /\ pc = "opened"
    /\ sess.point_sets = <<>>
    /\ LET r == verify(Transcript_new(sess.label), sess.commits, sess.points,
                       sess.evals, sess.proof)
       IN /\ transcript' = [transcript EXCEPT ![2] = r.t]
          /\ ret' = r.res
    /\ sess' = [sess EXCEPT !.stage = "verified"]
    /\ pc' = "verified"
    /\ call' = [op |-> "verify"]
    /\ UNCHANGED <<log, chal>>

\* s.open(&mut Transcript::new(label), &evals, &coeffs, 0)
OpenPrecomp ==
    /\ pc = "committed"
    /\ sess.point_sets # <<>>
    /\ LET r == open_precomp(Transcript_new(sess.label), sess.evals, sess.polys,
                             sess.point_sets, 0)
       IN /\ transcript' = [transcript EXCEPT ![1] = r.t]
          /\ ret' = r.res
          /\ IF r.res.kind = "Ok"
             THEN /\ sess' = [sess EXCEPT !.stage = "opened", !.proof = r.res.val]
                  /\ pc' = "opened"
             ELSE /\ sess' = [sess EXCEPT !.stage = "failed"]
                  /\ pc' = "failed"
    /\ call' = [op |-> "open_precomp"]
    /\ UNCHANGED <<log, chal>>

\* s.verify(&mut Transcript::new(label), &commits, 0, &evals, &open)
VerifyPrecomp ==
    /\ pc = "opened"
    /\ sess.point_sets # <<>>
    /\ LET r == verify_precomp(Transcript_new(sess.label), sess.commits,
                               sess.point_sets, 0, sess.evals, sess.proof)
       IN /\ transcript' = [transcript EXCEPT ![2] = r.t]
          /\ ret' = r.res
    /\ sess' = [sess EXCEPT !.stage = "verified"]
    /\ pc' = "verified"
    /\ call' = [op |-> "verify_precomp"]
    /\ UNCHANGED <<log, chal>>

\* the test ends; the next one starts from scratch
Restart ==
    /\ pc \in {"verified", "failed"}
    /\ call' = Idle
    /\ ret' = None
    /\ transcript' = [s \in Sessions |-> Transcript_new("testing")]
    /\ sess' = NoSession
    /\ pc' = "idle"
    /\ UNCHANGED <<log, chal>>

NextProto ==
    \/ Choose \/ ChoosePrecomp \/ CommitAll
    \/ Open \/ Verify \/ OpenPrecomp \/ VerifyPrecomp
    \/ Restart

SpecProto == Quiet /\ [][NextProto]_vars

FitsSrs(polys) == \A i \in 1 .. Len(polys) : Len(polys[i]) <= SrsLen

\* the session ran through, and verify accepted
Completed == pc # "failed" /\ (pc = "verified" => ret = Ok(TRUE))

PointsFitSrs(points) == Len(points) + 1 <= Len(Srs.g2)

====
